---------------------------- MODULE Spec2Model ----------------------------
(***************************************************************************)
(* A model of hydraidepy's Name (sdk/python/hydraidepy/name/name.py): the  *)
(* three-level identifier Sanctuary / Realm / Swamp, its accumulated path, *)
(* the wildcard test, the path parser load() and the island resolver       *)
(* get_island_id() with its per-instance cache island_number.              *)
(*                                                                         *)
(* A Python str is a sequence of one-character strings, <<"a", "/", "b">>  *)
(* for "a/b".  A 64-bit word is a tuple of 8 bytes, least significant      *)
(* first, because TLC's integers are 32 bits wide.                         *)
(***************************************************************************)
EXTENDS Integers, Sequences, FiniteSets, TLC

(***************************************************************************)
(* Strings                                                                 *)
(***************************************************************************)

\* The separator of path segments (f"{self.path}/{realm_name}", split("/")).
Slash == "/"

\* The wildcard marker compared against in is_wildcard_pattern.
Star == <<"*">>

\* The UTF-8 byte of each character the model draws labels from.
Ord(c) ==
    CASE c = "a" -> 97
      [] c = "b" -> 98
      [] c = "*" -> 42
      [] c = "/" -> 47

\* str.encode(): the bytes xxh64_hexdigest hashes for a str argument.
RECURSIVE Encode(_)
Encode(s) == IF s = <<>> THEN <<>> ELSE <<Ord(Head(s))>> \o Encode(Tail(s))

(***************************************************************************)
(* 64-bit unsigned arithmetic on words of 8 bytes, little-endian           *)
(***************************************************************************)

Pow2(k) == 2^k

ZeroW == <<0, 0, 0, 0, 0, 0, 0, 0>>

AllOnesW == <<255, 255, 255, 255, 255, 255, 255, 255>>

\* The word of a small non-negative integer (a length, a byte).
FromInt(n) ==
    <<n % 256, (n \div 256) % 256, (n \div 65536) % 256, (n \div 16777216) % 256,
      0, 0, 0, 0>>

\* Byte j of word a, 0 outside 1..8.
Limb(a, j) == IF j >= 1 /\ j <= 8 THEN a[j] ELSE 0

RECURSIVE AddFrom(_, _, _, _)
AddFrom(a, b, i, c) ==
    IF i > 8 THEN <<>>
    ELSE LET s == a[i] + b[i] + c
         IN  <<s % 256>> \o AddFrom(a, b, i + 1, s \div 256)

\* (a + b) mod 2^64
AddW(a, b) == AddFrom(a, b, 1, 0)

RECURSIVE ColSum(_, _, _, _)
ColSum(a, b, k, i) ==
    IF i > k THEN 0 ELSE a[i] * b[k + 1 - i] + ColSum(a, b, k, i + 1)

RECURSIVE MulFrom(_, _, _, _)
MulFrom(a, b, k, c) ==
    IF k > 8 THEN <<>>
    ELSE LET s == ColSum(a, b, k, 1) + c
         IN  <<s % 256>> \o MulFrom(a, b, k + 1, s \div 256)

\* (a * b) mod 2^64
MulW(a, b) == MulFrom(a, b, 1, 0)

RECURSIVE XorBits(_, _, _)
XorBits(x, y, n) ==
    IF n = 0 THEN 0
    ELSE ((x + y) % 2) + 2 * XorBits(x \div 2, y \div 2, n - 1)

\* a ^ b
XorW(a, b) ==
    <<XorBits(a[1], b[1], 8), XorBits(a[2], b[2], 8), XorBits(a[3], b[3], 8),
      XorBits(a[4], b[4], 8), XorBits(a[5], b[5], 8), XorBits(a[6], b[6], 8),
      XorBits(a[7], b[7], 8), XorBits(a[8], b[8], 8)>>

\* a >> k, 0 <= k < 64
ShrLimb(a, q, s, i) ==
    (Limb(a, i + q) \div Pow2(s)) + (Limb(a, i + q + 1) % Pow2(s)) * Pow2(8 - s)

ShrW(a, k) ==
    LET q == k \div 8
        s == k % 8
    IN  <<ShrLimb(a, q, s, 1), ShrLimb(a, q, s, 2), ShrLimb(a, q, s, 3),
          ShrLimb(a, q, s, 4), ShrLimb(a, q, s, 5), ShrLimb(a, q, s, 6),
          ShrLimb(a, q, s, 7), ShrLimb(a, q, s, 8)>>

\* (a << k) mod 2^64, 0 <= k < 64
ShlLimb(a, q, s, i) ==
    ((Limb(a, i - q) * Pow2(s)) % 256) + (Limb(a, i - q - 1) \div Pow2(8 - s))

ShlW(a, k) ==
    LET q == k \div 8
        s == k % 8
    IN  <<ShlLimb(a, q, s, 1), ShlLimb(a, q, s, 2), ShlLimb(a, q, s, 3),
          ShlLimb(a, q, s, 4), ShlLimb(a, q, s, 5), ShlLimb(a, q, s, 6),
          ShlLimb(a, q, s, 7), ShlLimb(a, q, s, 8)>>

\* rotate left by r, 0 < r < 64: the two shifted halves share no bit
RotlW(a, r) ==
    LET hi == ShlW(a, r)
        lo == ShrW(a, 64 - r)
    IN  <<hi[1] + lo[1], hi[2] + lo[2], hi[3] + lo[3], hi[4] + lo[4],
          hi[5] + lo[5], hi[6] + lo[6], hi[7] + lo[7], hi[8] + lo[8]>>

(***************************************************************************)
(* XXH64 with seed 0, as xxhash.xxh64_hexdigest computes it.  Every string  *)
(* the specifications hash is shorter than 32 bytes, so a digest is         *)
(* XXH64Avalanche of XXH64Tail started from PRIME64_5 + length; the stripes *)
(* of longer inputs are modelled for completeness.                          *)
(***************************************************************************)

PRIME64_1 == <<135, 202, 235, 133, 177, 121, 55, 158>>    \* 0x9E3779B185EBCA87
PRIME64_2 == <<79, 235, 212, 39, 61, 174, 178, 194>>      \* 0xC2B2AE3D27D4EB4F
PRIME64_3 == <<249, 121, 55, 158, 177, 103, 86, 22>>      \* 0x165667B19E3779F9
PRIME64_4 == <<99, 174, 178, 194, 119, 202, 235, 133>>    \* 0x85EBCA77C2B2AE63
PRIME64_5 == <<197, 103, 86, 22, 47, 235, 212, 39>>       \* 0x27D4EB2F165667C5

\* The little-endian word of the n bytes of b that start at index i, n = 8 or 4.
ReadLE(b, i, n) ==
    IF n = 8
    THEN <<b[i], b[i + 1], b[i + 2], b[i + 3], b[i + 4], b[i + 5], b[i + 6], b[i + 7]>>
    ELSE <<b[i], b[i + 1], b[i + 2], b[i + 3], 0, 0, 0, 0>>

XXH64Round(acc, input) ==
    MulW(RotlW(AddW(acc, MulW(input, PRIME64_2)), 31), PRIME64_1)

XXH64MergeRound(h, v) ==
    AddW(MulW(XorW(h, XXH64Round(ZeroW, v)), PRIME64_1), PRIME64_4)

\* One 32-byte stripe at index i: lanes k..4 of the accumulators v, each
\* fed its 8 bytes.
RECURSIVE XXH64Lanes(_, _, _, _)
XXH64Lanes(b, i, v, k) ==
    IF k > 4 THEN <<>>
    ELSE <<XXH64Round(v[k], ReadLE(b, i + 8 * (k - 1), 8))>>
         \o XXH64Lanes(b, i, v, k + 1)

\* The four accumulators over the 32-byte stripes of b from index i on.
RECURSIVE XXH64Stripes(_, _, _)
XXH64Stripes(b, i, v) ==
    IF i + 31 > Len(b) THEN v
    ELSE XXH64Stripes(b, i + 32, XXH64Lanes(b, i, v, 1))

\* rotl(v1, 1) + rotl(v2, 7) + rotl(v3, 12) + rotl(v4, 18), from lane k on.
RECURSIVE XXH64Converge(_, _)
XXH64Converge(v, k) ==
    IF k > 4 THEN ZeroW
    ELSE AddW(RotlW(v[k], <<1, 7, 12, 18>>[k]), XXH64Converge(v, k + 1))

\* h merged with the accumulators v[k], ..., v[4] in turn.
RECURSIVE XXH64MergeAll(_, _, _)
XXH64MergeAll(h, v, k) ==
    IF k > 4 THEN h
    ELSE XXH64MergeAll(XXH64MergeRound(h, v[k]), v, k + 1)

\* The tail: 8-byte lanes, then one 4-byte lane, then single bytes.
RECURSIVE XXH64Tail(_, _, _)
XXH64Tail(b, i, h) ==
    IF i + 7 <= Len(b) THEN
        XXH64Tail(b, i + 8,
            AddW(MulW(RotlW(XorW(h, XXH64Round(ZeroW, ReadLE(b, i, 8))), 27),
                      PRIME64_1),
                 PRIME64_4))
    ELSE IF i + 3 <= Len(b) THEN
        XXH64Tail(b, i + 4,
            AddW(MulW(RotlW(XorW(h, MulW(ReadLE(b, i, 4), PRIME64_1)), 23),
                      PRIME64_2),
                 PRIME64_3))
    ELSE IF i <= Len(b) THEN
        XXH64Tail(b, i + 1,
            MulW(RotlW(XorW(h, MulW(FromInt(b[i]), PRIME64_5)), 11), PRIME64_1))
    ELSE h

XXH64Avalanche(h) ==
    LET h1 == XorW(h, ShrW(h, 33))
        h2 == MulW(h1, PRIME64_2)
        h3 == XorW(h2, ShrW(h2, 29))
        h4 == MulW(h3, PRIME64_3)
    IN  XorW(h4, ShrW(h4, 32))

\* The accumulators of an input of 32 bytes or more, before its stripes.
XXH64Seeds ==
    <<AddW(PRIME64_1, PRIME64_2), PRIME64_2, ZeroW,
      AddW(XorW(PRIME64_1, AllOnesW), FromInt(1))>>

\* The state the tail starts from: PRIME64_5 for an input under 32 bytes,
\* the merged accumulators otherwise.
XXH64Head(b) ==
    IF Len(b) < 32 THEN PRIME64_5
    ELSE XXH64MergeAll(XXH64Converge(XXH64Stripes(b, 1, XXH64Seeds), 1),
                       XXH64Stripes(b, 1, XXH64Seeds), 1)

\* The 64-bit digest of the byte sequence b.
XXH64(b) ==
    XXH64Avalanche(XXH64Tail(b, 1 + 32 * (Len(b) \div 32),
                             AddW(XXH64Head(b), FromInt(Len(b)))))

\* The labels callers pass to the setters: empty, plain, the wildcard, a label
\* that only contains '*', and a label with an embedded '/'.
Labels == {<<>>, <<"a">>, <<"*">>, <<"a", "*">>, <<"a", "/", "b">>}

\* What get_island_id hashes when every field is a label.
HashInputs == {a \o b \o c : a \in Labels, b \in Labels, c \in Labels}

HexChars ==
    <<"0", "1", "2", "3", "4", "5", "6", "7",
      "8", "9", "a", "b", "c", "d", "e", "f">>

\* hexdigest(): the 16 lowercase hex digits of word w, most significant first.
RECURSIVE HexFrom(_, _)
HexFrom(w, j) ==
    IF j < 1 THEN <<>>
    ELSE <<HexChars[1 + (w[j] \div 16)], HexChars[1 + (w[j] % 16)]>> \o HexFrom(w, j - 1)

HexOf(w) == HexFrom(w, 8)

\* The 64-bit digest of a str: of its UTF-8 bytes.  The digests of the
\* strings the specifications hash (three labels, concatenated) are computed
\* once; any other string is hashed where it is met.
XXH64Known == {<<s, XXH64(Encode(s))>> : s \in HashInputs}

XXH64Str(s) ==
    IF s \in HashInputs
    THEN (CHOOSE p \in XXH64Known : p[1] = s)[2]
    ELSE XXH64(Encode(s))

\* xxh64_hexdigest(s) for a str s.
xxh64_hexdigest(s) == HexOf(XXH64Str(s))

HexValue(c) == CHOOSE d \in 0..15 : HexChars[d + 1] = c

\* int(hex, 16) % m for m >= 1, digit by digit: the 64-bit value itself does
\* not fit TLC's integers, and ((r * 16 + d) mod m) over the digits
\* is that value mod m.
RECURSIVE IntMod(_, _, _, _)
IntMod(hex, m, k, r) ==
    IF k > Len(hex) THEN r
    ELSE IntMod(hex, m, k + 1, (r * 16 + HexValue(hex[k])) % m)

(***************************************************************************)
(* Bounds and inputs                                                       *)
(***************************************************************************)

\* Calls made on one Name instance.
MaxCalls == 3

\* The largest all_islands a caller passes.
MaxIslands == 3

\* The Name instances: "x" in every specification, "y" beside it in SpecPair.
Inst == {"x", "y"}

\* The label of SpecPair's two instances.
PairLabels == {<<"a">>}

\* The all_islands arguments: 0 is the divisor line 185 does not guard against.
IslandCounts == 0..MaxIslands

\* The paths handed to Name.load besides the path of instance "x": empty, a
\* lone separator, an empty middle segment, four segments.
RawPaths ==
    {<<>>, <<"/">>, <<"a", "/", "/", "b">>, <<"a", "/", "b", "/", "*", "/", "a">>}

\* The threads that share instance "x" in SpecConc.
Threads == {"t1", "t2"}

(***************************************************************************)
(* class Name                                                              *)
(***************************************************************************)

\* __init__
NewName ==
    [path |-> <<>>, sanctuary_id |-> <<>>, realm_name |-> <<>>,
     swamp_name |-> <<>>, island_number |-> 0]

\* Mutant of sanctuary: the path is appended to instead of replaced.
sanctuary_appends(self, sanctuary_id) ==
    [self EXCEPT !.sanctuary_id = sanctuary_id, !.path = self.path \o sanctuary_id]

sanctuary(self, sanctuary_id) ==
    [self EXCEPT !.sanctuary_id = sanctuary_id, !.path = sanctuary_id]

\* Mutant of realm: the separator is left out.
realm_noslash(self, realm_name) ==
    [self EXCEPT !.realm_name = realm_name, !.path = self.path \o realm_name]

realm(self, realm_name) ==
    [self EXCEPT !.realm_name = realm_name,
                 !.path = self.path \o <<Slash>> \o realm_name]

swamp(self, swamp_name) ==
    [self EXCEPT !.swamp_name = swamp_name,
                 !.path = self.path \o <<Slash>> \o swamp_name]

get(self) == self.path

\* Mutant of is_wildcard_pattern: a field that contains '*' counts.
is_wildcard_pattern_contains(self) ==
    \E f \in {self.sanctuary_id, self.realm_name, self.swamp_name} :
        \E k \in 1..Len(f) : f[k] = "*"

\* Mutant of is_wildcard_pattern: exactly one field must be "*".
is_wildcard_pattern_one(self) ==
    Cardinality({k \in 1..3 :
        <<self.sanctuary_id, self.realm_name, self.swamp_name>>[k] = Star}) = 1

is_wildcard_pattern(self) ==
    \/ self.sanctuary_id = Star
    \/ self.realm_name = Star
    \/ self.swamp_name = Star

\* Mutant of CacheHit: the cache is never consulted.
CacheHit_never(self) == self.island_number # self.island_number

\* Line 179: the cache test of get_island_id.
CacheHit(self) == self.island_number # 0

\* Mutant of HashOf: the path, separators included, is hashed.
HashOf_path(self) == xxh64_hexdigest(self.path)

\* Lines 182-184: f"{self.sanctuary_id}{self.realm_name}{self.swamp_name}", hashed.
HashOf(self) ==
    xxh64_hexdigest(self.sanctuary_id \o self.realm_name \o self.swamp_name)

\* Line 185: int(_hash, 16) % all_islands + 1, for all_islands >= 1.
IslandOf(_hash, all_islands) == IntMod(_hash, all_islands, 1, 0) + 1

\* Mutant of StoreIsland: a value already cached is kept.
StoreIsland_keepfirst(self, v) ==
    IF self.island_number # 0 THEN self ELSE [self EXCEPT !.island_number = v]

\* Line 185: the assignment self.island_number = ...
StoreIsland(self, v) == [self EXCEPT !.island_number = v]

\* Mutant of get_island_id: a zero divisor gives residue 0 instead of raising,
\* so island 1 is stored and returned.
get_island_id_zero_residue(self, all_islands) ==
    IF CacheHit(self)
    THEN [self |-> self, ret |-> self.island_number, raised |-> ""]
    ELSE LET v == IF all_islands = 0 THEN 1
                  ELSE IslandOf(HashOf(self), all_islands)
             after == StoreIsland(self, v)
         IN  [self |-> after, ret |-> after.island_number, raised |-> ""]

\* get_island_id run to its end by one caller: the instance after the call,
\* the value returned, and the exception raised ("" when none).
get_island_id(self, all_islands) ==
    IF CacheHit(self)
    THEN [self |-> self, ret |-> self.island_number, raised |-> ""]
    ELSE IF all_islands = 0
    THEN [self |-> self, ret |-> 0, raised |-> "ZeroDivisionError"]
    ELSE LET after == StoreIsland(self, IslandOf(HashOf(self), all_islands))
         IN  [self |-> after, ret |-> after.island_number, raised |-> ""]

\* str.split("/"): the segments of s, one more than its separators.
RECURSIVE SplitFrom(_, _, _)
SplitFrom(s, i, cur) ==
    IF i > Len(s) THEN <<cur>>
    ELSE IF s[i] = Slash THEN <<cur>> \o SplitFrom(s, i + 1, <<>>)
    ELSE SplitFrom(s, i + 1, Append(cur, s[i]))

Split(s) == SplitFrom(s, 1, <<>>)

\* Mutant of load: the swamp is taken only from a fourth segment on.
load_late_swamp(path) ==
    LET parts == Split(path)
        n1 == sanctuary(NewName, parts[1])
        n2 == IF Len(parts) > 1 THEN realm(n1, parts[2]) ELSE n1
        n3 == IF Len(parts) > 3 THEN swamp(n2, parts[3]) ELSE n2
    IN  [name |-> n3, raised |-> ""]

\* Mutant of load: a path of more than three segments, or with an empty
\* sanctuary, is rejected as the docstring's ":raises ValueError" suggests.
load_strict(path) ==
    LET parts == Split(path)
        n1 == sanctuary(NewName, parts[1])
        n2 == IF Len(parts) > 1 THEN realm(n1, parts[2]) ELSE n1
        n3 == IF Len(parts) > 2 THEN swamp(n2, parts[3]) ELSE n2
    IN  IF Len(parts) > 3 \/ parts[1] = <<>>
        THEN [name |-> NewName, raised |-> "ValueError"]
        ELSE [name |-> n3, raised |-> ""]

\* Name.load: the Name returned, and the exception raised ("" when none).
load(path) ==
    LET parts == Split(path)
        n1 == sanctuary(NewName, parts[1])
        n2 == IF Len(parts) > 1 THEN realm(n1, parts[2]) ELSE n1
        n3 == IF Len(parts) > 2 THEN swamp(n2, parts[3]) ELSE n2
    IN  IF Len(parts) < 1
        THEN [name |-> NewName, raised |-> "ValueError"]
        ELSE [name |-> n3, raised |-> ""]

(***************************************************************************)
(* State                                                                   *)
(***************************************************************************)

VARIABLES
    names,      \* the Name instances: Inst -> their fields
    log,        \* per instance, the calls made on it: op, arg, ret, raised, and
                \* self, the instance as the call found it
    loaded,     \* the latest Name.load call: its argument and what it returned
    pc,         \* per thread, the line of get_island_id it is about to run
    frame,      \* per thread, its all_islands, its local _hash, its return value
    writes      \* the stores to island_number, in the order they landed

vars == <<names, log, loaded, pc, frame, writes>>

\* What the threads of SpecConc add to the state.
conc == <<pc, frame, writes>>

NoLoad == [called |-> FALSE, path |-> <<>>, name |-> NewName, raised |-> ""]

NoFrame == [all_islands |-> 0, _hash |-> <<>>, ret |-> 0]

Init ==
    /\ names = [i \in Inst |-> NewName]
    /\ log = [i \in Inst |-> <<>>]
    /\ loaded = NoLoad
    /\ pc = [t \in Threads |-> "idle"]
    /\ frame = [t \in Threads |-> NoFrame]
    /\ writes = <<>>

Entry(op, arg, ret, raised, self) ==
    [op |-> op, arg |-> arg, ret |-> ret, raised |-> raised, self |-> self]

\* name.sanctuary(a): returns self.
CallSanctuary(i, a) ==
    /\ Len(log[i]) < MaxCalls
    /\ names' = [names EXCEPT ![i] = sanctuary(names[i], a)]
    /\ log' = [log EXCEPT ![i] = Append(@, Entry("sanctuary", a, 0, "", names[i]))]
    /\ UNCHANGED <<loaded, conc>>

\* name.realm(a): returns self.
CallRealm(i, a) ==
    /\ Len(log[i]) < MaxCalls
    /\ names' = [names EXCEPT ![i] = realm(names[i], a)]
    /\ log' = [log EXCEPT ![i] = Append(@, Entry("realm", a, 0, "", names[i]))]
    /\ UNCHANGED <<loaded, conc>>

\* name.swamp(a): returns self.
CallSwamp(i, a) ==
    /\ Len(log[i]) < MaxCalls
    /\ names' = [names EXCEPT ![i] = swamp(names[i], a)]
    /\ log' = [log EXCEPT ![i] = Append(@, Entry("swamp", a, 0, "", names[i]))]
    /\ UNCHANGED <<loaded, conc>>

\* name.get_island_id(n), by a single caller.
CallGetIslandId(i, n) ==
    /\ Len(log[i]) < MaxCalls
    /\ LET r == get_island_id(names[i], n)
       IN  /\ names' = [names EXCEPT ![i] = r.self]
           /\ log' = [log EXCEPT ![i] =
                        Append(@, Entry("get_island_id", n, r.ret, r.raised, names[i]))]
    /\ UNCHANGED <<loaded, conc>>

\* Name.load(p): a static call, which touches no existing instance.
CallLoad(p) ==
    /\ LET r == load(p)
       IN  loaded' = [called |-> TRUE, path |-> p, name |-> r.name, raised |-> r.raised]
    /\ UNCHANGED <<names, log, conc>>

\* One instance, built and resolved by a single caller.
Next ==
    \/ \E a \in Labels : CallSanctuary("x", a)
    \/ \E a \in Labels : CallRealm("x", a)
    \/ \E a \in Labels : CallSwamp("x", a)
    \/ \E n \in IslandCounts : CallGetIslandId("x", n)

Spec == Init /\ [][Next]_vars

\* One instance built by its setters, and Name.load applied to its path and
\* to the raw paths.
NextLoad ==
    \/ \E a \in Labels : CallSanctuary("x", a)
    \/ \E a \in Labels : CallRealm("x", a)
    \/ \E a \in Labels : CallSwamp("x", a)
    \/ \E p \in {get(names["x"])} \cup RawPaths : CallLoad(p)

SpecLoad == Init /\ [][NextLoad]_vars

\* Two instances, each built and resolved by a single caller.
NextPair ==
    \/ \E i \in Inst, a \in PairLabels : CallSanctuary(i, a)
    \/ \E i \in Inst, a \in PairLabels : CallRealm(i, a)
    \/ \E i \in Inst, a \in PairLabels : CallSwamp(i, a)
    \/ \E i \in Inst, n \in IslandCounts : CallGetIslandId(i, n)

SpecPair == Init /\ [][NextPair]_vars

(***************************************************************************)
(* get_island_id line by line, run by two threads on instance "x"          *)
(***************************************************************************)

\* Instance "x" fully built and never resolved, shared by idle threads.
InitConc ==
    /\ \E a \in Labels, b \in Labels, c \in Labels :
          names = [i \in Inst |->
                     IF i = "x" THEN swamp(realm(sanctuary(NewName, a), b), c)
                     ELSE NewName]
    /\ log = [i \in Inst |-> <<>>]
    /\ loaded = NoLoad
    /\ pc = [t \in Threads |-> "idle"]
    /\ frame = [t \in Threads |-> NoFrame]
    /\ writes = <<>>

\* Thread t enters x.get_island_id(n).
Enter(t, n) ==
    /\ pc[t] = "idle"
    /\ pc' = [pc EXCEPT ![t] = "l179"]
    /\ frame' = [frame EXCEPT ![t].all_islands = n]
    /\ UNCHANGED <<names, log, loaded, writes>>

\* Line 179: if self.island_number != 0
Line179(t) ==
    /\ pc[t] = "l179"
    /\ pc' = [pc EXCEPT ![t] = IF CacheHit(names["x"]) THEN "l180" ELSE "l182"]
    /\ UNCHANGED <<names, log, loaded, frame, writes>>

\* Line 180: return self.island_number
Line180(t) ==
    /\ pc[t] = "l180"
    /\ frame' = [frame EXCEPT ![t].ret = names["x"].island_number]
    /\ pc' = [pc EXCEPT ![t] = "done"]
    /\ UNCHANGED <<names, log, loaded, writes>>

\* Lines 182-184: _hash = xxh64_hexdigest(...)
Line182(t) ==
    /\ pc[t] = "l182"
    /\ frame' = [frame EXCEPT ![t]._hash = HashOf(names["x"])]
    /\ pc' = [pc EXCEPT ![t] = "l185"]
    /\ UNCHANGED <<names, log, loaded, writes>>

\* Line 185: self.island_number = int(_hash, 16) % all_islands + 1
Line185(t) ==
    /\ pc[t] = "l185"
    /\ IF frame[t].all_islands = 0
       THEN /\ pc' = [pc EXCEPT ![t] = "raised"]
            /\ UNCHANGED <<names, writes>>
       ELSE LET v == IslandOf(frame[t]._hash, frame[t].all_islands)
            IN  /\ names' = [names EXCEPT !["x"] = StoreIsland(@, v)]
                /\ writes' = Append(writes, [thread |-> t, value |-> v])
                /\ pc' = [pc EXCEPT ![t] = "l186"]
    /\ UNCHANGED <<log, loaded, frame>>

\* Line 186: return self.island_number
Line186(t) ==
    /\ pc[t] = "l186"
    /\ frame' = [frame EXCEPT ![t].ret = names["x"].island_number]
    /\ pc' = [pc EXCEPT ![t] = "done"]
    /\ UNCHANGED <<names, log, loaded, writes>>

NextConc ==
    \/ \E t \in Threads, n \in IslandCounts : Enter(t, n)
    \/ \E t \in Threads : Line179(t)
    \/ \E t \in Threads : Line180(t)
    \/ \E t \in Threads : Line182(t)
    \/ \E t \in Threads : Line185(t)
    \/ \E t \in Threads : Line186(t)

SpecConc == InitConc /\ [][NextConc]_vars

(***************************************************************************)
(* Vocabulary of the properties                                            *)
(***************************************************************************)

IsSetter(e) == e.op \in {"sanctuary", "realm", "swamp"}

IsIsland(e) == e.op = "get_island_id"

\* The instance as call k of instance i left it.
After(i, k) == IF k < Len(log[i]) THEN log[i][k + 1].self ELSE names[i]

\* The setter calls of a log, in order.
Setters(l) == SelectSeq(l, IsSetter)

\* The strings of ss joined by "/".
RECURSIVE JoinSlash(_)
JoinSlash(ss) ==
    IF ss = <<>> THEN <<>>
    ELSE IF Len(ss) = 1 THEN ss[1]
    ELSE ss[1] \o <<Slash>> \o JoinSlash(Tail(ss))

\* Whether a log holds a call of setter op.
WasSet(l, op) == \E k \in 1..Len(l) : l[k].op = op

\* The values of the levels set so far, outermost first, up to the first level
\* never set.
SetPrefix(i) ==
    LET n == names[i]
        l == log[i]
    IN  IF ~WasSet(l, "sanctuary") THEN <<>>
        ELSE IF ~WasSet(l, "realm") THEN <<n.sanctuary_id>>
        ELSE IF ~WasSet(l, "swamp") THEN <<n.sanctuary_id, n.realm_name>>
        ELSE <<n.sanctuary_id, n.realm_name, n.swamp_name>>

\* The setter calls were made in level order: sanctuary (possibly repeated),
\* then realm at most once, then swamp at most once.
InLevelOrder(l) ==
    LET s == Setters(l)
    IN  \A k \in 1..Len(s) :
            \/ s[k].op = "sanctuary" /\ \A j \in 1..k : s[j].op = "sanctuary"
            \/ s[k].op = "realm" /\ k > 1 /\ s[k - 1].op = "sanctuary"
            \/ s[k].op = "swamp" /\ k > 1 /\ s[k - 1].op = "realm"

\* w mod m for a 64-bit word w and m >= 1, over its bytes from the top.
RECURSIVE WordModFrom(_, _, _, _)
WordModFrom(w, m, j, r) ==
    IF j < 1 THEN r ELSE WordModFrom(w, m, j - 1, (r * 256 + w[j]) % m)

WordMod(w, m) == WordModFrom(w, m, 8, 0)

\* hash64(outer + sub + leaf) of an instance, as a word.
Hash64(self) == XXH64Str(self.sanctuary_id \o self.realm_name \o self.swamp_name)

\* How many of the three fields are exactly "*".
StarCount(self) ==
    (IF self.sanctuary_id = <<"*">> THEN 1 ELSE 0)
    + (IF self.realm_name = <<"*">> THEN 1 ELSE 0)
    + (IF self.swamp_name = <<"*">> THEN 1 ELSE 0)

\* The latest argument passed to setter op, "" when it was never called.
RECURSIVE LastArg(_, _)
LastArg(l, op) ==
    IF l = <<>> THEN <<>>
    ELSE IF l[Len(l)].op = op THEN l[Len(l)].arg
    ELSE LastArg(SubSeq(l, 1, Len(l) - 1), op)

(***************************************************************************)
(* Properties of one instance used by a single caller (Spec)               *)
(***************************************************************************)

\* C1: on a fresh instance, sanctuary(a), then realm(b), then swamp(c) with
\* non-empty a, b, c leave path = a, then a/b, then a/b/c, the fields equal to
\* the values set and the levels not yet set empty.
C1_InOrderPath ==
    LET l == log["x"]
        n == names["x"]
    IN  /\ (Len(l) = 1 /\ l[1].op = "sanctuary" /\ l[1].arg # <<>>) =>
              /\ get(n) = l[1].arg
              /\ n.sanctuary_id = l[1].arg
              /\ n.realm_name = <<>>
              /\ n.swamp_name = <<>>
        /\ (/\ Len(l) = 2 /\ l[1].op = "sanctuary" /\ l[2].op = "realm"
            /\ l[1].arg # <<>> /\ l[2].arg # <<>>) =>
              /\ get(n) = l[1].arg \o <<"/">> \o l[2].arg
              /\ n.sanctuary_id = l[1].arg
              /\ n.realm_name = l[2].arg
              /\ n.swamp_name = <<>>
        /\ (/\ Len(l) = 3 /\ l[1].op = "sanctuary" /\ l[2].op = "realm"
            /\ l[3].op = "swamp"
            /\ l[1].arg # <<>> /\ l[2].arg # <<>> /\ l[3].arg # <<>>) =>
              /\ get(n) = l[1].arg \o <<"/">> \o l[2].arg \o <<"/">> \o l[3].arg
              /\ n.sanctuary_id = l[1].arg
              /\ n.realm_name = l[2].arg
              /\ n.swamp_name = l[3].arg

\* C1 witness: sanctuary("a").realm("*").swamp("a*") has been built.
C1_Witness ==
    /\ Len(log["x"]) = 3
    /\ [k \in 1..3 |-> log["x"][k].op] = <<"sanctuary", "realm", "swamp">>
    /\ [k \in 1..3 |-> log["x"][k].arg] = << <<"a">>, <<"*">>, <<"a", "*">> >>
    /\ get(names["x"]) = <<"a", "/", "*", "/", "a", "*">>

\* C2 (as claimed): every get_island_id(n) with n >= 1 returns a value in
\* 1..n, whatever calls were made before it.
C2_ReturnInRange ==
    \A k \in 1..Len(log["x"]) :
        LET e == log["x"][k]
        IN  (IsIsland(e) /\ e.arg >= 1) =>
                (e.raised = "" /\ e.ret >= 1 /\ e.ret <= e.arg)

C5_FirstComputation ==
    \A k \in 1..Len(log["x"]) :
        LET e == log["x"][k]
        IN  (IsIsland(e) /\ e.self.island_number = 0 /\ e.arg >= 1) =>
                /\ e.raised = ""
                /\ e.ret = WordMod(Hash64(e.self), e.arg) + 1
                /\ e.ret >= 1 /\ e.ret <= e.arg
                /\ After("x", k).island_number = e.ret
                /\ After("x", k) = [e.self EXCEPT !.island_number = e.ret]
                /\ \A j \in (k + 1)..Len(log["x"]) :
                      (IsIsland(log["x"][j]) /\ log["x"][j].arg = e.arg) =>
                          log["x"][j].ret = e.ret

\* C5 witness: on sanctuary("a") with the cache unset, get_island_id(3) was
\* called twice and returned 3 both times.
C5_Witness ==
    /\ Len(log["x"]) >= 3
    /\ log["x"][2].self.sanctuary_id = <<"a">>
    /\ log["x"][2].self.island_number = 0
    /\ IsIsland(log["x"][2]) /\ log["x"][2].arg = 3 /\ log["x"][2].ret = 3
    /\ IsIsland(log["x"][3]) /\ log["x"][3].arg = 3 /\ log["x"][3].ret = 3
    /\ names["x"].island_number = 3

\* C7: after any setter calls, is_wildcard_pattern() is true exactly when at
\* least one of the three fields, which hold the latest values set, is the
\* one-character string "*".
C7_WildcardIffAnyStar ==
    LET n == names["x"]
        l == log["x"]
    IN  /\ n.sanctuary_id = LastArg(l, "sanctuary")
        /\ n.realm_name = LastArg(l, "realm")
        /\ n.swamp_name = LastArg(l, "swamp")
        /\ is_wildcard_pattern(n) <=>
              \E f \in {LastArg(l, "sanctuary"), LastArg(l, "realm"),
                        LastArg(l, "swamp")} : f = <<"*">>

\* C7 witness: two fields are "*" and the third only contains '*'.
C7_Witness ==
    /\ names["x"].sanctuary_id = <<"*">>
    /\ names["x"].realm_name = <<"a", "*">>
    /\ names["x"].swamp_name = <<"*">>
    /\ is_wildcard_pattern(names["x"])

\* C8 (as claimed): is_wildcard_pattern() is true exactly when exactly one of
\* the three fields is "*".
C8_ExactlyOneStar ==
    is_wildcard_pattern(names["x"]) <=> (StarCount(names["x"]) = 1)

\* C8 (amended): is_wildcard_pattern() is true when exactly one field is "*",
\* true as well when two or all three are, and false when none is.
C8_OneOrMoreStars ==
    /\ StarCount(names["x"]) = 1 => is_wildcard_pattern(names["x"])
    /\ StarCount(names["x"]) >= 2 => is_wildcard_pattern(names["x"])
    /\ StarCount(names["x"]) = 0 => ~is_wildcard_pattern(names["x"])

\* C8 witness: all three fields are "*".
C8_Witness ==
    /\ StarCount(names["x"]) = 3
    /\ is_wildcard_pattern(names["x"])

\* C9 (as claimed): after any sequence of setter calls, path is the slash-join
\* of the current values of the set prefix of the three levels.
C9_PathIsJoinOfSetPrefix ==
    get(names["x"]) = JoinSlash(SetPrefix("x"))

\* C9 (amended): when the setters were called in level order (sanctuary,
\* possibly repeated, then realm at most once, then swamp at most once), path
\* is the slash-join of the current values of the set prefix.
C9_PathIsJoinInLevelOrder ==
    InLevelOrder(log["x"]) => get(names["x"]) = JoinSlash(SetPrefix("x"))

\* C9 witness: sanctuary("a"), sanctuary("*"), realm("a/b") left path "*/a/b".
C9_Witness ==
    /\ [k \in 1..Len(log["x"]) |-> log["x"][k].op] = <<"sanctuary", "sanctuary", "realm">>
    /\ log["x"][1].arg = <<"a">>
    /\ InLevelOrder(log["x"])
    /\ get(names["x"]) = <<"*", "/", "a", "/", "b">>

\* C11: get_island_id(0) on an instance whose island_number is 0 raises
\* ZeroDivisionError and leaves island_number at 0 and sanctuary_id,
\* realm_name, swamp_name and path as they were; on an instance whose
\* island_number is already set it raises nothing, returns the cached value
\* and changes nothing either.
C11_ZeroIslands ==
    \A k \in 1..Len(log["x"]) :
        LET e == log["x"][k]
        IN  (IsIsland(e) /\ e.arg = 0) =>
                /\ After("x", k) = e.self
                /\ e.self.island_number = 0 =>
                      /\ e.raised = "ZeroDivisionError"
                      /\ After("x", k).island_number = 0
                /\ e.self.island_number # 0 =>
                      /\ e.raised = ""
                      /\ e.ret = e.self.island_number

\* C11 witness: get_island_id(0) raised with the cache unset, get_island_id(2)
\* then computed and cached 2, and a second get_island_id(0) returned that 2.
C11_Witness ==
    /\ Len(log["x"]) = 3
    /\ IsIsland(log["x"][1]) /\ log["x"][1].arg = 0
    /\ log["x"][1].raised = "ZeroDivisionError"
    /\ IsIsland(log["x"][2]) /\ log["x"][2].arg = 2 /\ log["x"][2].ret = 2
    /\ IsIsland(log["x"][3]) /\ log["x"][3].arg = 0
    /\ log["x"][3].raised = "" /\ log["x"][3].ret = 2
    /\ names["x"].island_number = 2

(***************************************************************************)
(* Properties of two instances (SpecPair)                                  *)
(***************************************************************************)

\* C4 (as claimed): any two get_island_id(n) calls, on the same or on
\* different instances, made with equal sanctuary_id, realm_name, swamp_name
\* and equal n >= 1, return the same value, whatever was called before them.
C4_DeterministicInFields ==
    \A i \in Inst, j \in Inst :
        \A k \in 1..Len(log[i]), m \in 1..Len(log[j]) :
            LET e == log[i][k]
                f == log[j][m]
            IN  (/\ IsIsland(e) /\ IsIsland(f)
                 /\ e.arg >= 1 /\ f.arg = e.arg
                 /\ e.self.sanctuary_id = f.self.sanctuary_id
                 /\ e.self.realm_name = f.self.realm_name
                 /\ e.self.swamp_name = f.self.swamp_name) =>
                    (e.raised = "" /\ f.raised = "" /\ e.ret = f.ret)

(***************************************************************************)
(* Properties of Name.load (SpecLoad)                                      *)
(***************************************************************************)

NoSlash(s) == \A k \in 1..Len(s) : s[k] # "/"

\* The log is sanctuary, realm, swamp, cut after 1 to 3 calls, each with a
\* non-empty argument free of "/".
BuiltInOrder(l) ==
    /\ Len(l) >= 1 /\ Len(l) <= 3
    /\ \A k \in 1..Len(l) :
          /\ l[k].op = <<"sanctuary", "realm", "swamp">>[k]
          /\ l[k].arg # <<>>
          /\ NoSlash(l[k].arg)

\* C6: for an identifier built in order on a fresh instance, with 1 to 3
\* levels set to non-empty strings free of "/", load(id.get()) returns a Name
\* with the same sanctuary_id, realm_name and swamp_name and the same path.
C6_LoadRoundTrip ==
    (/\ loaded.called
     /\ loaded.path = get(names["x"])
     /\ BuiltInOrder(log["x"])) =>
        /\ loaded.raised = ""
        /\ loaded.name.sanctuary_id = names["x"].sanctuary_id
        /\ loaded.name.realm_name = names["x"].realm_name
        /\ loaded.name.swamp_name = names["x"].swamp_name
        /\ get(loaded.name) = get(names["x"])

\* C6 witness: "a/*/a*" was built in order and loaded back.
C6_Witness ==
    /\ loaded.called
    /\ BuiltInOrder(log["x"])
    /\ get(names["x"]) = <<"a", "/", "*", "/", "a", "*">>
    /\ loaded.path = get(names["x"])
    /\ loaded.name.swamp_name = <<"a", "*">>

\* The segments of p on "/": the one sequence of strings free of "/" whose
\* slash-join is p.
IsSegments(s, p) ==
    /\ Len(s) >= 1
    /\ \A k \in 1..Len(s) : NoSlash(s[k])
    /\ JoinSlash(s) = p

BothReturned ==
    /\ \A t \in Threads : pc[t] = "done"
    /\ frame["t1"].all_islands # frame["t2"].all_islands

\* C10 (as claimed): after both calls have completed, island_number holds the
\* value of the first store; a later store does not replace it.
C10_FirstWriteWins ==
    (BothReturned /\ writes # <<>>) =>
        names["x"].island_number = writes[1].value

\* C10 (amended): after both calls have completed, island_number holds the
\* value of the last store to land: a thread that passed the cache test before
\* the other thread's store replaces that store's value with its own.
C10_LastWriteWins ==
    BothReturned =>
        /\ writes # <<>>
        /\ names["x"].island_number = writes[Len(writes)].value
        /\ \A k \in 1..Len(writes) :
              writes[k].value =
                  IslandOf(HashOf(names["x"]), frame[writes[k].thread].all_islands)

\* C10 witness: both threads stored, different values, and both returned.
C10_Witness ==
    /\ BothReturned
    /\ Len(writes) = 2
    /\ writes[1].value # writes[2].value
    /\ names["x"].island_number = writes[2].value

=============================================================================
